---- MODULE Spec2Model ----
(***************************************************************************)
(* Model of the discovery-and-validation engine of cubari-hakken.          *)
(* Two implementations of the engine live in the repository:               *)
(*   finder.py         (cache, token rotation, two-stage run)              *)
(*   cubari_finder.py  (paged search, seen-set, one validation stage)      *)
(* Definitions modelled from cubari_finder.py carry the prefix cf_.        *)
(***************************************************************************)
EXTENDS Integers, Sequences, FiniteSets, TLC

\* ------------------------------------------------------------------ bounds
MaxSize == 4          \* the size domain explored is 0..MaxSize
MaxTokens == 2        \* credential pools of 1..MaxTokens tokens
MaxFaults == 1        \* requests of one run that are not answered with 200
MaxWorkers == 2       \* threads calling the API client concurrently
MaxRequests == 3      \* requests one github_search call is followed for
MaxClock == 2         \* database timestamps are 0..MaxClock
MaxCands == 2         \* candidates the search stage hands to validation

\* The paging parameters of the search API, scaled down: the code asks for
\* per_page = 100 and stops after page 10, and the API serves no more than the
\* first 1000 = 100 * 10 results of a query.  The model keeps the relation and
\* explores it for small page sizes and page counts.
PER_PAGE == 2         \* items per page (code: 100)
MAX_PAGES == 2        \* pages fetched per query at most (code: 10)

\* result cap of one search query (code: 1000)
CAP == PER_PAGE * MAX_PAGES

\* number of files of one byte size in the searched corpus: none, one, more
\* than the cap
CountChoices == {0, 1, CAP + 1}

Sizes == 0..MaxSize

\* HTTP outcomes of one request: a status code or a raised exception
Statuses == {"200", "403", "429", "500", "exc"}

VARIABLES
    impl,           \* which implementation runs: "finder" or "cubari"
    count,          \* corpus: byte size -> number of matching files
    twins,          \* corpus: file 2 of a size is byte-identical to file 1
    tokens,         \* TokenManager.tokens (number of credentials)
    current_index,  \* TokenManager.current_index
    cache,          \* finder_cache table: the set of its rows
    clock,          \* CURRENT_TIMESTAMP of the database
    written,        \* history: url -> sha and verdict of its last successful write
    prior,          \* history: the rows of the cache when the run started
    payload,        \* schema validation: the fetched JSON value
    verdict,        \* schema validation: what the validators returned for it
    stage,          \* run(): the stage the main thread is in
    candidates,     \* run(): candidates
    tasks,          \* run(): every future submitted so far, in submission order
    valid_results,  \* run(): valid_results (cubari_finder.py: validated)
    repos_to_scan,  \* run(): repos_to_scan
    deep_candidates,\* run(): deep_candidates
    seen_urls,      \* cubari_finder.py run(): seen_urls
    stack,          \* pending calls of search_size_range (top first)
    collected,      \* candidates emitted so far
    seen_shas,      \* cubari_finder.py: seen_shas
    leaves,         \* history: intervals whose query was answered and not split
    failed,         \* history: intervals whose query failed
    splits,         \* history: splits performed
    root,           \* the interval the partitioning run started with
    aborted,        \* an exception left the run
    faults,         \* requests so far that were not answered with 200
    wpc,            \* client call of each thread: where it is
    wtok,           \* the tokens the call put in its Authorization headers
    wread,          \* report_rate_limit: the index the thread read
    wreq,           \* requests the call has issued
    wres,           \* what the call returned
    wslept,         \* seconds the call has slept
    reports,        \* calls of report_rate_limit so far
    limited         \* rate-limit responses (403/429) received so far

\* state shared by the components
svars == <<impl, tokens, current_index, cache>>

\* the cache's clock and write history
kvars == <<clock, written, prior>>

\* the partitioner
pvars == <<count, twins, stack, collected, seen_shas, leaves, failed, splits, root,
           aborted, faults>>

\* the API client
cvars == <<wpc, wtok, wread, wreq, wres, wslept, reports, limited>>

\* schema validation on its own
yvars == <<payload, verdict>>

\* the engine's run
rvars == <<stage, candidates, tasks, valid_results, repos_to_scan, deep_candidates,
           seen_urls>>

vars == <<svars, pvars, cvars, kvars, yvars, rvars>>

\* what the partitioner's steps leave alone
notPartition == <<cvars, kvars, yvars, rvars>>

\* what the client's steps leave alone
notClient == <<pvars, cache, kvars, yvars, rvars>>

\* ------------------------------------------------------------ the corpus
RECURSIVE Total(_, _, _)
\* total_count the search API reports for size:lo..hi
Total(cnt, lo, hi) == IF lo > hi THEN 0 ELSE cnt[lo] + Total(cnt, lo + 1, hi)

RECURSIVE ItemAt(_, _, _)
\* the k-th matching file of size:lo.. in the order the API lists them
\* (by size, then by position among the files of that size)
ItemAt(cnt, lo, k) ==
    IF k <= cnt[lo] THEN <<lo, k>> ELSE ItemAt(cnt, lo + 1, k - cnt[lo])

\* the matching files of size:lo..hi
FilesIn(cnt, lo, hi) == UNION {{<<s, i>> : i \in 1..cnt[s]} : s \in lo..hi}

Min(a, b) == IF a < b THEN a ELSE b

\* page p (1-based) of a query: the API serves only the first CAP results
Page(cnt, lo, hi, p) ==
    LET top == Min(Total(cnt, lo, hi), CAP)
        from == PER_PAGE * (p - 1)
        to == Min(PER_PAGE * p, top)
    IN  [j \in 1..(to - from) |-> ItemAt(cnt, lo, from + j)]

\* blob sha of a file
ShaOf(tw, f) == IF tw /\ f[2] = 2 THEN <<f[1], 1>> ELSE f

\* html_url of a search item, as its "/"-separated segments
HtmlUrl(f) == <<"github.com", "o", IF f[2] % 2 = 1 THEN "r1" ELSE "r2", "blob", "main", f>>

RawHost == "raw.githubusercontent.com"

\* finder.py to_raw_url / cubari_finder.py to_raw_url:
\* replace("github.com", raw host) then replace("/blob/", "/")
to_raw_url(u) ==
    LET hosted == [k \in 1..Len(u) |-> IF u[k] = "github.com" THEN RawHost ELSE u[k]]
    IN  SelectSeq(hosted, LAMBDA seg : seg # "blob")

\* ------------------------------------------------------ CacheManager
\* is_sha_cached: some row of finder_cache carries the sha; "" is never cached
is_sha_cached(c, sha) ==
    /\ sha # ""
    /\ \E row \in c : row.sha = sha

Row(url, sha, is_valid, source_type, t) ==
    [url |-> url, sha |-> sha, is_valid |-> is_valid, source_type |-> source_type,
     last_checked |-> t]

\* INSERT OR IGNORE: a conflicting row is left as it is
save_result_ignore(c, url, sha, is_valid, source_type, t) ==
    IF \E row \in c : row.url = url THEN c
    ELSE c \cup {Row(url, sha, is_valid, source_type, t)}

\* save_result: INSERT ... ON CONFLICT(url) DO UPDATE SET sha, is_valid,
\* last_checked (the row keeps its source_type)
save_result(c, url, sha, is_valid, source_type, t) ==
    IF \E row \in c : row.url = url
      THEN {IF row.url = url
              THEN [row EXCEPT !.sha = sha, !.is_valid = is_valid, !.last_checked = t]
              ELSE row : row \in c}
      ELSE c \cup {Row(url, sha, is_valid, source_type, t)}

\* ------------------------------------------------------ TokenManager
get_token(tk, idx) == tk[idx + 1]

COOLDOWN == 60

\* a rotator that skips a credential at every report
report_rate_limit_skip(tk, idx) ==
    [index |-> (idx + 2) % Len(tk),
     slept |-> IF Len(tk) = 1 THEN COOLDOWN ELSE 0]

\* a rotator that never sleeps
report_rate_limit_nosleep(tk, idx) ==
    [index |-> (idx + 1) % Len(tk), slept |-> 0]

\* report_rate_limit: advance round-robin; a pool of one sleeps COOLDOWN seconds
report_rate_limit(tk, idx) ==
    [index |-> (idx + 1) % Len(tk),
     slept |-> IF Len(tk) = 1 THEN COOLDOWN ELSE 0]

\* ------------------------------------------------------ github_api_get
\* One sequential call: r1 is the outcome of the first request, r2 of the retry.
\* ok = a JSON body was returned; otherwise the call returned None.
github_api_get(tk, idx, r1, r2) ==
    IF r1 = "200"
      THEN [ok |-> TRUE, index |-> idx, requests |-> 1, reports |-> 0, slept |-> 0,
            used |-> <<get_token(tk, idx)>>, faults |-> 0]
    ELSE IF r1 \in {"403", "429"}
      THEN LET rr == report_rate_limit(tk, idx)
           IN  [ok |-> r2 = "200", index |-> rr.index, requests |-> 2, reports |-> 1,
                slept |-> rr.slept,
                used |-> <<get_token(tk, idx), get_token(tk, rr.index)>>,
                faults |-> IF r2 = "200" THEN 1 ELSE 2]
    ELSE [ok |-> FALSE, index |-> idx, requests |-> 1, reports |-> 0, slept |-> 0,
          used |-> <<get_token(tk, idx)>>, faults |-> 1]

\* ------------------------------------------------------ search_size_range
\* a midpoint rounded up
MidCeil(lo, hi) == (lo + hi + 1) \div 2

\* mid = (min_size + max_size) // 2
Mid(lo, hi) == (lo + hi) \div 2

\* a split that re-searches the midpoint in the right half
ChildrenOverlap(lo, hi) == <<[lo |-> lo, hi |-> Mid(lo, hi)], [lo |-> Mid(lo, hi), hi |-> hi]>>

\* the two recursive calls of a split
Children(lo, hi) == <<[lo |-> lo, hi |-> Mid(lo, hi)], [lo |-> Mid(lo, hi) + 1, hi |-> hi]>>

\* a call of search_size_range: its interval, its depth in the call tree, the
\* caller's interval, and (cubari_finder.py) the paging loop it is in: the
\* page to request next, and whether the page before it came back full
Frame(iv, d, parent) ==
    [lo |-> iv.lo, hi |-> iv.hi, depth |-> d, plo |-> parent.lo, phi |-> parent.hi,
     pc |-> "count", page |-> 1, first |-> 0, full |-> TRUE]

\* a partitioner that never takes the dense-leaf exit
NeverDense(lo, hi) == FALSE

\* finder.py: "if mid == min_size: return"
IsDenseLeaf(lo, hi) == Mid(lo, hi) = lo

\* cubari_finder.py: "if max_size - min_size <= 1"
cf_IsDenseLeaf(lo, hi) == hi - lo <= 1

\* finder.py: the candidates appended for the items of the first response page
Emit(c, tw, items) ==
    LET kept == SelectSeq(items, LAMBDA f : ~is_sha_cached(c, ShaOf(tw, f)))
    IN  [k \in 1..Len(kept) |-> <<to_raw_url(HtmlUrl(kept[k])), "search_shard", ShaOf(tw, kept[k])>>]

Leaf(f, kind, total, first, last) ==
    [lo |-> f.lo, hi |-> f.hi, kind |-> kind, total |-> total, first |-> first, last |-> last]

\* finder.py search_size_range: one call, up to its recursive calls
search_size_range ==
    /\ impl = "finder"
    /\ stack # <<>>
    /\ \E r1 \in Statuses, r2 \in Statuses :
        LET f == Head(stack)
            g == github_api_get(tokens, current_index, r1, r2)
            total == Total(count, f.lo, f.hi)
            n == Len(collected)
        IN  /\ faults + g.faults <= MaxFaults
            /\ faults' = faults + g.faults
            /\ current_index' = g.index
            /\ IF ~g.ok
                 THEN /\ failed' = failed \cup {[lo |-> f.lo, hi |-> f.hi]}
                      /\ stack' = Tail(stack)
                      /\ UNCHANGED <<collected, leaves, splits>>
               ELSE IF total = 0
                 THEN /\ leaves' = leaves \cup {Leaf(f, "empty", total, n + 1, n)}
                      /\ stack' = Tail(stack)
                      /\ UNCHANGED <<collected, failed, splits>>
               ELSE IF total <= CAP
                 THEN /\ collected' = collected \o Emit(cache, twins, Page(count, f.lo, f.hi, 1))
                      /\ leaves' = leaves \cup {Leaf(f, "safe", total, n + 1, Len(collected'))}
                      /\ stack' = Tail(stack)
                      /\ UNCHANGED <<failed, splits>>
               ELSE IF IsDenseLeaf(f.lo, f.hi)
                 THEN /\ leaves' = leaves \cup {Leaf(f, "dense", total, n + 1, n)}
                      /\ stack' = Tail(stack)
                      /\ UNCHANGED <<collected, failed, splits>>
               ELSE LET ch == Children(f.lo, f.hi)
                    IN  /\ stack' = <<Frame(ch[1], f.depth + 1, f), Frame(ch[2], f.depth + 1, f)>>
                                      \o Tail(stack)
                        /\ splits' = splits \cup {[parent |-> [lo |-> f.lo, hi |-> f.hi],
                                                   left |-> ch[1], right |-> ch[2]]}
                        /\ UNCHANGED <<collected, leaves, failed>>
    /\ UNCHANGED <<impl, count, twins, tokens, cache, seen_shas, root, aborted>>
    /\ UNCHANGED notPartition

\* ------------------------------------------- cubari_finder.py search
\* a 200 response whose page is cut short (incomplete_results): it lacks the
\* last item of the page
Incomplete == "200-incomplete"

ShortPage(items) == IF items = <<>> THEN <<>> ELSE SubSeq(items, 1, Len(items) - 1)

\* github_search: loops while the API answers 403 (sleeping in between); r is
\* the first response that is not a 403.  200 -> the JSON body, another status
\* -> {}, an exception of requests.get is not caught.
cf_github_search(r) ==
    IF r \in {"200", Incomplete} THEN "data" ELSE IF r = "exc" THEN "raise" ELSE "empty"

\* the items of one page that are appended, with the shas they add to seen_shas
RECURSIVE cf_Emit(_, _, _, _)
cf_Emit(tw, items, seen, kind) ==
    IF items = <<>> THEN [out |-> <<>>, seen |-> seen]
    ELSE LET f == Head(items)
             sha == ShaOf(tw, f)
         IN  IF sha \in seen THEN cf_Emit(tw, Tail(items), seen, kind)
             ELSE LET rest == cf_Emit(tw, Tail(items), seen \cup {sha}, kind)
                  IN  [out |-> <<<<to_raw_url(HtmlUrl(f)), kind>>>> \o rest.out,
                       seen |-> rest.seen]

\* a request that is not answered with 200 draws on the run's fault budget
CountFault(r) ==
    /\ r # "200" => faults < MaxFaults
    /\ faults' = IF r = "200" THEN faults ELSE faults + 1

\* first github_search of a call: read total_count and pick the branch
cf_search_size_range ==
    /\ impl = "cubari"
    /\ stack # <<>>
    /\ Head(stack).pc = "count"
    /\ \E r \in Statuses \ {"403"} :
        /\ CountFault(r)
        /\ LET f == Head(stack)
                res == cf_github_search(r)
                total == Total(count, f.lo, f.hi)
                n == Len(collected)
            IN  IF res = "raise"
                  THEN /\ aborted' = TRUE
                       /\ stack' = <<>>
                       /\ UNCHANGED <<leaves, failed, splits>>
                ELSE /\ UNCHANGED aborted
                     /\ IF res = "empty"
                          THEN /\ failed' = failed \cup {[lo |-> f.lo, hi |-> f.hi]}
                               /\ stack' = Tail(stack)
                               /\ UNCHANGED <<leaves, splits>>
                        ELSE IF total = 0
                          THEN /\ leaves' = leaves \cup {Leaf(f, "empty", total, n + 1, n)}
                               /\ stack' = Tail(stack)
                               /\ UNCHANGED <<failed, splits>>
                        ELSE IF total <= CAP
                          THEN /\ stack' = <<[f EXCEPT !.pc = "safe", !.page = 1, !.first = n + 1]>>
                                             \o Tail(stack)
                               /\ UNCHANGED <<leaves, failed, splits>>
                        ELSE IF cf_IsDenseLeaf(f.lo, f.hi)
                          THEN /\ stack' = <<[f EXCEPT !.pc = "dense", !.page = 1, !.first = n + 1]>>
                                             \o Tail(stack)
                               /\ UNCHANGED <<leaves, failed, splits>>
                        ELSE LET ch == Children(f.lo, f.hi)
                             IN  /\ stack' = <<Frame(ch[1], f.depth + 1, f),
                                               Frame(ch[2], f.depth + 1, f)>> \o Tail(stack)
                                 /\ splits' = splits \cup {[parent |-> [lo |-> f.lo, hi |-> f.hi],
                                                            left |-> ch[1], right |-> ch[2]]}
                                 /\ UNCHANGED <<leaves, failed>>
    /\ UNCHANGED <<impl, count, twins, tokens, current_index, cache, collected,
                   seen_shas, root>>
    /\ UNCHANGED notPartition

\* one iteration of a paging loop (safe interval or dense leaf)
cf_page ==
    /\ impl = "cubari"
    /\ stack # <<>>
    /\ Head(stack).pc \in {"safe", "dense"}
    /\ \E r \in (Statuses \ {"403"}) \cup {Incomplete} :
        /\ CountFault(r)
        /\ LET f == Head(stack)
                res == cf_github_search(r)
                items == IF res # "data" THEN <<>>
                         ELSE IF r = Incomplete THEN ShortPage(Page(count, f.lo, f.hi, f.page))
                         ELSE Page(count, f.lo, f.hi, f.page)
                kind == IF f.pc = "safe" THEN "adaptive_size_shard" ELSE "dense_leaf"
                em == cf_Emit(twins, items, seen_shas, kind)
                last == \/ items = <<>>
                        \/ f.pc = "safe" /\ Len(items) < PER_PAGE
                        \/ f.page + 1 > MAX_PAGES
            IN  IF res = "raise"
                  THEN /\ aborted' = TRUE
                       /\ stack' = <<>>
                       /\ UNCHANGED <<collected, seen_shas, leaves>>
                ELSE /\ UNCHANGED aborted
                     /\ collected' = collected \o em.out
                     /\ seen_shas' = em.seen
                     /\ IF last
                          THEN /\ stack' = Tail(stack)
                               /\ leaves' = leaves \cup
                                    {Leaf(f, f.pc, Total(count, f.lo, f.hi), f.first, Len(collected'))}
                        ELSE /\ stack' = <<[f EXCEPT !.page = f.page + 1,
                                                      !.full = (Len(items) = PER_PAGE)]>>
                                             \o Tail(stack)
                             /\ UNCHANGED leaves
    /\ UNCHANGED <<impl, count, twins, tokens, current_index, cache, failed, splits, root>>
    /\ UNCHANGED notPartition

\* ------------------------------------------- JSON payloads
\* A fetched JSON value.  root: what kind of value it is ("none": fetch_json
\* returned None).  For an object, f maps each key present to the kind of its
\* value: "http" a string starting with http, "str" another string, "int" a
\* number, "dict" an object; ch is the value of "chapters" when it is an
\* object: chapter key -> chapter.
\* A chapter: kind "dict" or not; has: which of title, volume, groups it
\* holds; gkind: the kind of its "groups"; groups: group name -> "url" (a
\* non-blank string), "blank" (a string of spaces) or "int".
ChapterFields == {"title", "volume", "groups"}
GroupVals == {"url", "blank", "int"}
GroupNames == {"g1", "g2"}
GroupMaps == UNION {[S -> GroupVals] : S \in SUBSET GroupNames}

Chapter(kind, has, gkind, groups) ==
    [kind |-> kind, has |-> has, gkind |-> gkind, groups |-> groups]

Chapters ==
    {Chapter("str", {}, "none", <<>>)}
    \cup {Chapter("dict", h, "none", <<>>) : h \in SUBSET {"title", "volume"}}
    \cup {Chapter("dict", h \cup {"groups"}, "str", <<>>) : h \in SUBSET {"title", "volume"}}
    \cup {Chapter("dict", h \cup {"groups"}, "dict", g) :
            h \in SUBSET {"title", "volume"}, g \in GroupMaps}

GoodChapter == Chapter("dict", ChapterFields, "dict", "g1" :> "url")
BareChapter == Chapter("dict", {"groups"}, "dict", "g1" :> "url")
BlankChapter == Chapter("dict", ChapterFields, "dict", "g1" :> "blank")

RootKeys == {"title", "description", "artist", "author", "cover", "chapters"}
StringKeys == RootKeys \ {"chapters"}

Payload(kind, f, ch) == [root |-> kind, f |-> f, ch |-> ch]

NoPayload == Payload("none", <<>>, <<>>)

\* Python truthiness of the fetched value: None and {} are falsy
Falsy(data) == data.root = "none" \/ (data.root = "dict" /\ DOMAIN data.f = {})

\* data.get(key, ""): the kind of the value, "empty" for the default ""
Get(data, key) == IF key \in DOMAIN data.f THEN data.f[key] ELSE "empty"

IsStr(kind) == kind \in {"http", "str", "empty"}

Result(ok, reason) == [ok |-> ok, reason |-> reason]

\* cubari_finder.py validate_root_schema: REQUIRED_ROOT_FIELDS, in order
RECURSIVE cf_check_fields(_, _)
cf_check_fields(data, fields) ==
    IF fields = <<>> THEN Result(TRUE, <<>>)
    ELSE LET k == Head(fields)
         IN  IF k \notin DOMAIN data.f
               THEN Result(FALSE, <<"Missing required field", k>>)
             ELSE IF (k = "chapters" /\ data.f[k] # "dict")
                     \/ (k # "chapters" /\ ~IsStr(data.f[k]))
               THEN Result(FALSE, <<"Invalid type for field", k>>)
             ELSE cf_check_fields(data, Tail(fields))

REQUIRED_ROOT_FIELDS == <<"title", "description", "artist", "author", "cover", "chapters">>

cf_validate_root_schema(data) ==
    IF data.root # "dict" THEN Result(FALSE, <<"Root is not a dictionary">>)
    ELSE cf_check_fields(data, REQUIRED_ROOT_FIELDS)

\* finder.py validate_root_schema
validate_root_schema(data) ==
    IF data.root # "dict" THEN Result(FALSE, <<"Root is not a dictionary">>)
    ELSE IF "title" \notin DOMAIN data.f \/ "chapters" \notin DOMAIN data.f
      THEN Result(FALSE, <<"Missing title or chapters">>)
    ELSE IF data.f["chapters"] # "dict"
      THEN Result(FALSE, <<"Chapters is not a dict">>)
    ELSE Result(TRUE, <<>>)

\* number of group entries of a chapter whose value is a non-blank string
ValidGroups(c) == Cardinality({g \in DOMAIN c.groups : c.groups[g] = "url"})

\* finder.py validate_chapters_structure: the chapters that count as valid
ValidChapterKeys(ch) ==
    {k \in DOMAIN ch :
        /\ ch[k].kind = "dict"
        /\ "groups" \in ch[k].has
        /\ ch[k].gkind = "dict"
        /\ ValidGroups(ch[k]) > 0}

validate_chapters_structure(ch) ==
    IF DOMAIN ch = {} THEN Result(FALSE, <<"Chapters empty">>)
    ELSE IF ValidChapterKeys(ch) = {} THEN Result(FALSE, <<"No valid chapters found">>)
    ELSE Result(TRUE, <<>>)

\* cubari_finder.py validate_chapters_structure: title, volume and groups are
\* all required of a chapter
cf_ValidChapterKeys(ch) ==
    {k \in DOMAIN ch :
        /\ ch[k].kind = "dict"
        /\ ChapterFields \subseteq ch[k].has
        /\ ch[k].gkind = "dict"
        /\ ValidGroups(ch[k]) > 0}

cf_validate_chapters_structure(data) ==
    IF data.f["chapters"] # "dict" \/ DOMAIN data.ch = {}
      THEN Result(FALSE, <<"Chapters must be a non-empty dictionary">>)
    ELSE IF cf_ValidChapterKeys(data.ch) = {}
      THEN Result(FALSE, <<"No valid chapters found">>)
    ELSE Result(TRUE, <<>>)

\* finder.py strict_validate_cubari
strict_validate_cubari(data) ==
    IF ~validate_root_schema(data).ok THEN validate_root_schema(data)
    ELSE validate_chapters_structure(data.ch)

\* cubari_finder.py strict_validate_cubari
cf_strict_validate_cubari(data) ==
    IF ~cf_validate_root_schema(data).ok THEN cf_validate_root_schema(data)
    ELSE cf_validate_chapters_structure(data)

\* finder.py extract_repo_info: strip the raw-host prefix, split at "/"
UrlParts(raw_url) ==
    IF raw_url # <<>> /\ Head(raw_url) = RawHost THEN Tail(raw_url)
    ELSE <<"https:", "">> \o raw_url

\* <<>> stands for None
extract_repo_info(raw_url) ==
    LET parts == UrlParts(raw_url)
    IN  IF Len(parts) >= 3
          THEN <<[owner |-> parts[1], repo |-> parts[2], branch |-> parts[3],
                  path |-> SubSeq(parts, 4, Len(parts))]>>
          ELSE <<>>

\* cubari_finder.py extract_repo_from_url: split the whole URL at "/"
cf_extract_repo_from_url(raw_url) ==
    LET parts == <<"https:", "">> \o raw_url
    IN  IF Len(parts) > 5 THEN <<parts[4], parts[5]>> ELSE <<"unknown">>

\* the sha argument of a candidate without a digest (None)
NoSha == "None"

Outcome(res, exc, c) == [res |-> res, exc |-> exc, cache |-> c]

\* finder.py validate_candidate, lines 223-241: the record of a valid payload
Record(data, raw_url, source_type) ==
    [title |-> Get(data, "title"),
     description |-> Get(data, "description"),
     artist |-> Get(data, "artist"),
     author |-> Get(data, "author"),
     cover |-> Get(data, "cover"),
     url |-> raw_url,
     repo |-> IF extract_repo_info(raw_url) # <<>>
                THEN extract_repo_info(raw_url)[1].repo ELSE "unknown",
     found_via |-> source_type,
     chapters_count |-> Cardinality(DOMAIN data.ch),
     chapters |-> data.ch,
     score |-> IF Get(data, "cover") = "http" THEN 1 ELSE 0]

\* finder.py validate_candidate on the fetched value data, at database time t:
\* the record returned (<<>> for None), whether an exception left the call,
\* and the cache afterwards
validate_candidate(c, raw_url, source_type, sha, data, t) ==
    IF Falsy(data)
      THEN Outcome(<<>>, FALSE,
                   IF sha # NoSha THEN save_result(c, raw_url, sha, FALSE, source_type, t) ELSE c)
    ELSE LET v == strict_validate_cubari(data)
             c2 == IF sha # NoSha
                     THEN save_result(c, raw_url, sha, v.ok, source_type, t) ELSE c
         IN  IF ~v.ok THEN Outcome(<<>>, FALSE, c2)
             ELSE IF ~IsStr(Get(data, "cover"))
               THEN Outcome(<<>>, TRUE, c2)   \* .startswith of a non-string: AttributeError
             ELSE Outcome(<<Record(data, raw_url, source_type)>>, FALSE, c2)

\* cubari_finder.py validate_candidate
cf_validate_candidate(raw_url, source_type, data) ==
    IF Falsy(data) THEN Outcome(<<>>, FALSE, {})
    ELSE IF ~cf_strict_validate_cubari(data).ok THEN Outcome(<<>>, FALSE, {})
    ELSE Outcome(<<[title |-> Get(data, "title"),
                    cover |-> Get(data, "cover"),
                    url |-> raw_url,
                    repo |-> cf_extract_repo_from_url(raw_url),
                    found_via |-> source_type,
                    chapters_count |-> Cardinality(DOMAIN data.ch)]>>, FALSE, {})

\* no payload under validation
SchemaIdle ==
    /\ payload = NoPayload
    /\ verdict = <<>>

\* run() not started
RunIdle ==
    /\ stage = "SEARCH_DISCOVERY"
    /\ candidates = <<>>
    /\ tasks = <<>>
    /\ valid_results = <<>>
    /\ repos_to_scan = {}
    /\ deep_candidates = <<>>
    /\ seen_urls = {}

\* ------------------------------------------- the partitioning run
TokenPools == {[k \in 1..n |-> k] : n \in 1..MaxTokens}

Intervals == {[lo |-> l, hi |-> h] : l \in Sizes, h \in Sizes} 

\* the cache at the start of a run: empty, or holding the row an earlier run
\* left for the first file of size s
PriorCaches(s) ==
    {{}, {Row(to_raw_url(HtmlUrl(<<s, 1>>)), <<s, 1>>, FALSE, "search_shard", 0)}}

Workers == 1..MaxWorkers

\* no client call under way
ClientIdle ==
    /\ wpc = [w \in Workers |-> "idle"]
    /\ wtok = [w \in Workers |-> <<>>]
    /\ wread = [w \in Workers |-> 0]
    /\ wreq = [w \in Workers |-> 0]
    /\ wres = [w \in Workers |-> "none"]
    /\ wslept = [w \in Workers |-> 0]
    /\ reports = 0
    /\ limited = 0

\* the database clock at the start of a run
CacheIdle ==
    /\ clock = 0
    /\ written = <<>>

InitPartition ==
    /\ RunIdle
    /\ SchemaIdle
    /\ ClientIdle
    /\ CacheIdle
    /\ impl \in {"finder", "cubari"}
    /\ root \in {iv \in Intervals : iv.lo <= iv.hi}
    /\ count \in {c \in [Sizes -> CountChoices] :
                     \A s \in Sizes \ (root.lo..root.hi) : c[s] = 0}
    /\ twins \in BOOLEAN
    /\ tokens = [k \in 1..MaxTokens |-> k]
    /\ current_index = 0
    /\ cache \in (IF impl = "finder" THEN PriorCaches(root.lo) ELSE {{}})
    /\ prior = cache
    /\ stack = <<Frame(root, 0, root)>>
    /\ collected = <<>>
    /\ seen_shas = {}
    /\ leaves = {}
    /\ failed = {}
    /\ splits = {}
    /\ aborted = FALSE
    /\ faults = 0

NextPartition ==
    \/ search_size_range
    \/ cf_search_size_range
    \/ cf_page

SpecPartition == InitPartition /\ [][NextPartition]_vars

\* the partitioning run has returned to its caller
PartitionDone == stack = <<>> /\ ~aborted

IntervalSet(iv) == iv.lo..iv.hi

\* the intervals of S are pairwise disjoint and their union is the interval d
Tiles(S, d) ==
    /\ \A a \in S, b \in S :
         (a.lo # b.lo \/ a.hi # b.hi) => IntervalSet(a) \cap IntervalSet(b) = {}
    /\ UNION {IntervalSet(a) : a \in S} = IntervalSet(d)

Bare(S) == {[lo |-> l.lo, hi |-> l.hi] : l \in S}

\* the candidates a leaf's call appended
Emitted(l) == SubSeq(collected, l.first, l.last)

\* a run against a stub API: every request answered, nothing classified before,
\* no two files with the same content
StubRun == faults = 0 /\ cache = {} /\ ~twins

\* C1: every interval whose query reports 0 < totalCount <= CAP yields exactly
\* totalCount distinct candidates, one for each matching file.
C1_SafeLeafEmitsAll ==
    StubRun =>
      \A l \in leaves :
        l.kind = "safe" =>
          /\ Len(Emitted(l)) = l.total
          /\ {Emitted(l)[k][1] : k \in 1..Len(Emitted(l))}
               = {to_raw_url(HtmlUrl(f)) : f \in FilesIn(count, l.lo, l.hi)}

\* C2 (as claimed): when the run finishes, the accepted leaves are pairwise
\* disjoint and their union is the whole domain, whatever the API answered.
C2_LeavesTileDomain == PartitionDone => Tiles(Bare(leaves), root)

\* C2 (amended): when the run finishes, the accepted leaves together with the
\* intervals whose query failed are pairwise disjoint and their union is the
\* whole domain; no interval is both accepted and failed.
C2_LeavesAndFailedTileDomain ==
    PartitionDone =>
      /\ Tiles(Bare(leaves) \cup failed, root)
      /\ Bare(leaves) \cap failed = {}
      /\ (failed = {} => Tiles(Bare(leaves), root))

C2_Witness ==
    /\ PartitionDone
    /\ failed # {}
    /\ Cardinality(leaves) >= 2
    /\ splits # {}

RECURSIVE CeilLog2(_)
CeilLog2(n) == IF n <= 1 THEN 0 ELSE 1 + CeilLog2((n + 1) \div 2)

Width(f) == f.hi - f.lo + 1

RECURSIVE SumCost(_)
\* work left in the pending calls: each call of width w starts at most 2w - 1
\* calls, and each call pages at most MAX_PAGES times
SumCost(st) ==
    IF st = <<>> THEN 0
    ELSE (IF Head(st).pc = "count"
            THEN (2 * Width(Head(st)) - 1) * (MAX_PAGES + 1)
            ELSE MAX_PAGES - Head(st).page + 1)
         + SumCost(Tail(st))

C3_DepthInv ==
    \A k \in 1..Len(stack) :
      LET f == stack[k]
      IN  /\ f.lo <= f.hi
          /\ f.depth <= CeilLog2(Width(root))
          /\ f.depth > 0 => /\ f.hi - f.lo < f.phi - f.plo
                            /\ f.plo <= f.lo /\ f.hi <= f.phi

\* C3: every pending call is on a non-empty interval strictly inside and
\* narrower than its caller's, at a depth of at most ceil(log2(high-low+1)),
\* and every step of the partitioner strictly reduces the work left: the
\* recursion terminates for every assignment of total counts.
C3_BisectionTerminates ==
    /\ []C3_DepthInv
    /\ [][SumCost(stack') < SumCost(stack)]_vars

C3_Witness ==
    /\ \E k \in 1..Len(stack) : stack[k].depth = 2
    /\ \A s \in IntervalSet(root) : count[s] > CAP

\* C22: every split of [low, high], low < high, yields [low, mid] and
\* [mid+1, high] with mid = floor((low+high)/2): both children are non-empty,
\* they share no integer, and together they are the parent interval.
C22_SplitPartitionsParent ==
    \A s \in splits :
      LET low == s.parent.lo
          high == s.parent.hi
          mid == (low + high) \div 2
      IN  /\ low < high
          /\ s.left = [lo |-> low, hi |-> mid]
          /\ s.right = [lo |-> mid + 1, hi |-> high]
          /\ s.left.lo <= s.left.hi
          /\ s.right.lo <= s.right.hi
          /\ (s.left.lo..s.left.hi) \cap (s.right.lo..s.right.hi) = {}
          /\ (s.left.lo..s.left.hi) \cup (s.right.lo..s.right.hi) = low..high

\* a finished run that split an interval whose midpoint is rounded down
C22_Witness ==
    /\ PartitionDone
    /\ \E s \in splits :
        /\ (s.parent.lo + s.parent.hi) % 2 = 1
        /\ s.left.hi > s.left.lo
        /\ s.right.hi > s.right.lo

\* C23: the pages of a query are requested from page 1 upwards, a further
\* page only after a full page, and none beyond page MAX_PAGES; a query emits
\* at most CAP candidates.
C23_PagingBounded ==
    /\ \A k \in 1..Len(stack) :
         stack[k].pc \in {"safe", "dense"} =>
           /\ stack[k].page \in 1..MAX_PAGES
           /\ stack[k].page > 1 => stack[k].full
    /\ \A l \in leaves : Len(Emitted(l)) <= CAP

\* C4: a dense leaf (totalCount > CAP, high - low <= 1) yields candidates.
C4_DenseLeafEmits ==
    StubRun => \A l \in leaves : l.kind = "dense" => Len(Emitted(l)) > 0


\* ------------------------------------------- the API client, thread by thread
\* no partitioning run under way
PartitionIdle ==
    /\ count = [s \in Sizes |-> 0]
    /\ twins = FALSE
    /\ stack = <<>>
    /\ collected = <<>>
    /\ seen_shas = {}
    /\ leaves = {}
    /\ failed = {}
    /\ splits = {}
    /\ root = [lo |-> 0, hi |-> 0]
    /\ aborted = FALSE
    /\ faults = 0

RateLimit == {"403", "429"}

\* github_api_get, line 248: the headers carry the active token
gag_call(w) ==
    /\ impl = "finder"
    /\ wpc[w] = "idle"
    /\ wtok' = [wtok EXCEPT ![w] = <<get_token(tokens, current_index)>>]
    /\ wpc' = [wpc EXCEPT ![w] = "req1"]
    /\ UNCHANGED <<impl, tokens, current_index, wread, wreq, wres, wslept, reports, limited>>
    /\ UNCHANGED notClient

\* a client that treats every failed response as a rate limit
gag_request1_rotate_on_any(w) ==
    /\ impl = "finder"
    /\ wpc[w] = "req1"
    /\ \E r \in Statuses :
        /\ wreq' = [wreq EXCEPT ![w] = @ + 1]
        /\ limited' = IF r \in RateLimit THEN limited + 1 ELSE limited
        /\ wpc' = [wpc EXCEPT ![w] = IF r # "200" THEN "rl_read" ELSE "done"]
        /\ wres' = [wres EXCEPT ![w] = IF r = "200" THEN "json" ELSE @]
    /\ UNCHANGED <<impl, tokens, current_index, wtok, wread, wslept, reports>>
    /\ UNCHANGED notClient

\* github_api_get, lines 250-255 and 263-267: the first request and its outcome
gag_request1(w) ==
    /\ impl = "finder"
    /\ wpc[w] = "req1"
    /\ \E r \in Statuses :
        /\ wreq' = [wreq EXCEPT ![w] = @ + 1]
        /\ limited' = IF r \in RateLimit THEN limited + 1 ELSE limited
        /\ wpc' = [wpc EXCEPT ![w] = IF r \in RateLimit THEN "rl_read" ELSE "done"]
        /\ wres' = [wres EXCEPT ![w] = IF r = "200" THEN "json"
                                       ELSE IF r \in RateLimit THEN @ ELSE "None"]
    /\ UNCHANGED <<impl, tokens, current_index, wtok, wread, wslept, reports>>
    /\ UNCHANGED notClient

\* report_rate_limit, line 114, first half: read self.current_index
gag_rl_read(w) ==
    /\ impl = "finder"
    /\ wpc[w] = "rl_read"
    /\ wread' = [wread EXCEPT ![w] = current_index]
    /\ wpc' = [wpc EXCEPT ![w] = "rl_write"]
    /\ UNCHANGED <<impl, tokens, current_index, wtok, wreq, wres, wslept, reports, limited>>
    /\ UNCHANGED notClient

\* report_rate_limit, line 114, second half: store the advanced index;
\* lines 117-119: a pool of one then sleeps
gag_rl_write(w) ==
    /\ impl = "finder"
    /\ wpc[w] = "rl_write"
    /\ current_index' = report_rate_limit(tokens, wread[w]).index
    /\ reports' = reports + 1
    /\ wpc' = [wpc EXCEPT ![w] = IF report_rate_limit(tokens, wread[w]).slept > 0
                                   THEN "sleeping" ELSE "retok"]
    /\ UNCHANGED <<impl, tokens, wtok, wread, wreq, wres, wslept, limited>>
    /\ UNCHANGED notClient

\* report_rate_limit, line 119: time.sleep(60) returns
gag_wake(w) ==
    /\ impl = "finder"
    /\ wpc[w] = "sleeping"
    /\ wslept' = [wslept EXCEPT ![w] = report_rate_limit(tokens, wread[w]).slept]
    /\ wpc' = [wpc EXCEPT ![w] = "retok"]
    /\ UNCHANGED <<impl, tokens, current_index, wtok, wread, wreq, wres, reports, limited>>
    /\ UNCHANGED notClient

\* github_api_get, line 258: the retry's headers carry the token active now
gag_retok(w) ==
    /\ impl = "finder"
    /\ wpc[w] = "retok"
    /\ wtok' = [wtok EXCEPT ![w] = Append(@, get_token(tokens, current_index))]
    /\ wpc' = [wpc EXCEPT ![w] = "req2"]
    /\ UNCHANGED <<impl, tokens, current_index, wread, wreq, wres, wslept, reports, limited>>
    /\ UNCHANGED notClient

\* github_api_get, lines 259-267: the retry and its outcome
gag_request2(w) ==
    /\ impl = "finder"
    /\ wpc[w] = "req2"
    /\ \E r \in Statuses :
        /\ wreq' = [wreq EXCEPT ![w] = @ + 1]
        /\ limited' = IF r \in RateLimit THEN limited + 1 ELSE limited
        /\ wres' = [wres EXCEPT ![w] = IF r = "200" THEN "json" ELSE "None"]
    /\ wpc' = [wpc EXCEPT ![w] = "done"]
    /\ UNCHANGED <<impl, tokens, current_index, wtok, wread, wslept, reports>>
    /\ UNCHANGED notClient

MIN_SLEEP == 5
BACKOFF == 60

Max(a, b) == IF a > b THEN a ELSE b

\* cubari_finder.py github_search, lines 70-82: how long a 403 sleeps.
\* remaining: the X-RateLimit-Remaining header ("absent" when the response
\* lacks it); reset: the X-RateLimit-Reset header, <<>> when absent and <<T>>
\* when it reads T; now: int(time.time())
cf_sleep_time(remaining, reset, now) ==
    IF remaining = "0" /\ reset # <<>>
      THEN Max(reset[1] - now, MIN_SLEEP)
      ELSE BACKOFF

Remainings == {"absent", "0", "1"}
Resets == {<<>>, <<95>>, <<104>>, <<130>>}
Nows == {100, 101}

\* cubari_finder.py github_search is called by the main thread only
cf_call ==
    /\ impl = "cubari"
    /\ wpc[1] = "idle"
    /\ wpc' = [wpc EXCEPT ![1] = "loop"]
    /\ UNCHANGED <<impl, tokens, current_index, wtok, wread, wreq, wres, wslept, reports, limited>>
    /\ UNCHANGED notClient

\* cubari_finder.py github_search, lines 64-86: one iteration of "while True"
cf_request ==
    /\ impl = "cubari"
    /\ wpc[1] = "loop"
    /\ wreq[1] < MaxRequests
    /\ \E r \in Statuses :
        /\ wreq' = [wreq EXCEPT ![1] = @ + 1]
        /\ limited' = IF r \in RateLimit THEN limited + 1 ELSE limited
        /\ wpc' = [wpc EXCEPT ![1] = IF r = "403" THEN "loop" ELSE "done"]
        /\ wres' = [wres EXCEPT ![1] = IF r = "200" THEN "json"
                                       ELSE IF r = "403" THEN @
                                       ELSE IF r = "exc" THEN "raise" ELSE "empty"]
        /\ IF r = "403"
             THEN \E rem \in Remainings, rst \in Resets, now \in Nows :
                    wslept' = [wslept EXCEPT ![1] = cf_sleep_time(rem, rst, now)]
             ELSE UNCHANGED wslept
    /\ UNCHANGED <<impl, tokens, current_index, wtok, wread, reports>>
    /\ UNCHANGED notClient

InitClient ==
    /\ RunIdle
    /\ SchemaIdle
    /\ PartitionIdle
    /\ ClientIdle
    /\ impl \in {"finder", "cubari"}
    /\ tokens \in TokenPools
    /\ current_index \in 0..(Len(tokens) - 1)
    /\ cache = {}
    /\ prior = cache
    /\ CacheIdle

NextClient ==
    \/ \E w \in Workers :
         \/ gag_call(w)
         \/ gag_request1(w)
         \/ gag_rl_read(w)
         \/ gag_rl_write(w)
         \/ gag_wake(w)
         \/ gag_retok(w)
         \/ gag_request2(w)
    \/ cf_call
    \/ cf_request

SpecClient == InitClient /\ [][NextClient]_vars

\* C5: a client call issues at most two requests (the request and one retry),
\* also when every response is a rate-limit response.
C5_AtMostOneRetry == \A w \in Workers : wreq[w] <= 2


\* ------------------------------------------- the cache on its own
Digests == {"", "d1", "d2"}
CacheUrls == {<<RawHost, "o", "r1", "main", "a.json">>,
              <<RawHost, "o", "r2", "HEAD", "a.json">>}
SourceTypes == {"search_shard", "deep_scan"}

\* CacheManager.save_result: one call.  ok = FALSE: the statement raised, the
\* error is logged and the table is as before.
cm_save_result ==
    \E url \in CacheUrls, sha \in Digests, is_valid \in BOOLEAN,
       source_type \in SourceTypes, ok \in BOOLEAN, t \in clock..MaxClock :
        /\ clock' = t
        /\ IF ok
             THEN /\ cache' = save_result(cache, url, sha, is_valid, source_type, t)
                  /\ written' = [u \in DOMAIN written \cup {url} |->
                                   IF u = url THEN [sha |-> sha, is_valid |-> is_valid]
                                   ELSE written[u]]
             ELSE UNCHANGED <<cache, written>>
        /\ UNCHANGED <<impl, tokens, current_index, prior>>
        /\ UNCHANGED <<pvars, cvars, yvars, rvars>>

InitCache ==
    /\ RunIdle
    /\ SchemaIdle
    /\ PartitionIdle
    /\ ClientIdle
    /\ CacheIdle
    /\ impl = "finder"
    /\ tokens \in TokenPools
    /\ current_index = 0
    /\ cache = {}
    /\ prior = cache

NextCache == cm_save_result

SpecCache == InitCache /\ [][NextCache]_vars

AllowedKinds(k) ==
    IF k = "chapters" THEN {"dict", "str"}
    ELSE IF k = "cover" THEN {"str", "http", "int"}
    ELSE {"str", "int"}

RootFieldMaps ==
    {f \in UNION {[S -> {"str", "http", "int", "dict"}] : S \in SUBSET RootKeys} :
        \A k \in DOMAIN f : f[k] \in AllowedKinds(k)}

GoodRoot == [k \in RootKeys |-> IF k = "chapters" THEN "dict"
                                ELSE IF k = "cover" THEN "http" ELSE "str"]

SmallChapterMaps == {<<>>, "1" :> GoodChapter, "1" :> BlankChapter}

ChapterKeys == {"1", "2"}
ChapterMaps == UNION {[S -> Chapters] : S \in SUBSET ChapterKeys}

\* the payloads validated: every presence and kind of the root fields over a
\* few chapter maps, every chapter map under a well-formed root, and a value
\* that is no object
SchemaPayloads ==
    {d \in [root : {"dict"}, f : RootFieldMaps, ch : SmallChapterMaps] :
        ("chapters" \notin DOMAIN d.f \/ d.f["chapters"] # "dict") => d.ch = <<>>}
    \cup {Payload("dict", GoodRoot, ch) : ch \in ChapterMaps}
    \cup {Payload("list", <<>>, <<>>)}

SchemaUrl == <<RawHost, "o", "r1", "main", "a.json">>

\* the cache a single validation finds: empty, or holding the row an earlier
\* validation of the same URL left
SchemaCaches == {{}, {Row(SchemaUrl, "d0", TRUE, "search_shard", 0)}}

\* finder.py: validate the payload as validate_candidate does, for a candidate
\* with or without a digest; wrote: the INSERT of save_result went through
\* (otherwise the sqlite error is logged and dropped, finder.py lines 88-89,
\* and the table is as before)
sv_validate ==
    /\ impl = "finder"
    /\ verdict = <<>>
    /\ \E sha \in {NoSha, "d1"}, before \in SchemaCaches, wrote \in BOOLEAN :
        LET o == validate_candidate(before, SchemaUrl, "search_shard", sha, payload, 1)
        IN  verdict' = <<[root |-> validate_root_schema(payload),
                          strict |-> strict_validate_cubari(payload),
                          out |-> [o EXCEPT !.cache = IF wrote THEN @ ELSE before],
                          sha |-> sha,
                          before |-> before]>>
    /\ UNCHANGED <<payload, svars, pvars, cvars, kvars, rvars>>

\* cubari_finder.py: validate the payload as validate_candidate does
cf_sv_validate ==
    /\ impl = "cubari"
    /\ verdict = <<>>
    /\ verdict' = <<[root |-> cf_validate_root_schema(payload),
                     strict |-> cf_strict_validate_cubari(payload),
                     out |-> cf_validate_candidate(SchemaUrl, "adaptive_size_shard", payload)]>>
    /\ UNCHANGED <<payload, svars, pvars, cvars, kvars, rvars>>

InitSchema ==
    /\ RunIdle
    /\ PartitionIdle
    /\ ClientIdle
    /\ CacheIdle
    /\ impl \in {"finder", "cubari"}
    /\ tokens = <<1>>
    /\ current_index = 0
    /\ cache = {}
    /\ prior = cache
    /\ payload \in SchemaPayloads
    /\ verdict = <<>>

NextSchema ==
    \/ sv_validate
    \/ cf_sv_validate

SpecSchema == InitSchema /\ [][NextSchema]_vars

\* the six root fields are present with the right types
RootWellTyped(data) ==
    /\ data.root = "dict"
    /\ RootKeys \subseteq DOMAIN data.f
    /\ \A k \in StringKeys : IsStr(data.f[k])
    /\ data.f["chapters"] = "dict"

\* C10: root validation accepts a payload only if all six fields are present
\* and correctly typed; otherwise it fails with a reason and no record results.
C10_RootSchemaStrict ==
    verdict # <<>> =>
      /\ verdict[1].root.ok => RootWellTyped(payload)
      /\ ~RootWellTyped(payload) =>
           /\ verdict[1].root.reason # <<>>
           /\ verdict[1].out.res = <<>>
           /\ ~verdict[1].out.exc

\* C15: the rotator's read-then-advance is one critical section: every call of
\* report_rate_limit moves the index on by exactly one (so k calls leave it at
\* initial + k modulo the pool size), and the index stays within the pool.
C15_RotatorAtomic ==
    /\ [](current_index \in 0..(Len(tokens) - 1))
    /\ [][reports' # reports =>
            current_index' = (current_index + 1) % Len(tokens)]_vars

\* C16: with two or more credentials, the retry of a rate-limited request
\* carries a credential different from the one first used.
C16_RetryUsesOtherCredential ==
    \A w \in Workers :
      (impl = "finder" /\ Len(tokens) >= 2 /\ Len(wtok[w]) = 2) => wtok[w][1] # wtok[w][2]

Sleeping == {w \in Workers : wpc[w] = "sleeping"}

\* C17: with a pool of one credential, no worker issues a request while
\* another worker sleeps in the cooldown.
C17_SingleCredentialStall ==
    [][(impl = "finder" /\ Len(tokens) = 1) =>
         \A w \in Workers : (Sleeping \ {w} # {}) => wreq'[w] = wreq[w]]_vars

ClientQuiet == \A w \in Workers : wpc[w] \in {"idle", "done"}

\* C18: once every call of finder.py's client has returned, the number of
\* report_rate_limit calls equals the number of rate-limited responses seen.
C18_EveryRateLimitReported ==
    (impl = "finder" /\ ClientQuiet) => reports = limited

\* C19: a response of finder.py's client that is neither a success nor a
\* rate limit (another status, a timeout, a connection error) ends the call
\* with None: nothing is raised, no further request is made, the rotator is
\* not called and the credential index is unchanged.
C19_OtherFailureReturnsNone ==
    /\ [](impl = "finder" => \A w \in Workers : wres[w] # "raise")
    /\ [][impl = "finder" =>
            \A w \in Workers :
              /\ (wreq'[w] = wreq[w] + 1 /\ limited' = limited /\ wres'[w] # "json") =>
                   /\ wpc'[w] = "done"
                   /\ wres'[w] = "None"
                   /\ current_index' = current_index
                   /\ reports' = reports
              /\ wpc[w] = "done" => (wpc'[w] = "done" /\ wreq'[w] = wreq[w])]_vars

C19_Witness ==
    /\ impl = "finder"
    /\ \E w \in Workers :
        /\ wpc[w] = "done"
        /\ wres[w] = "None"
        /\ wreq[w] = 1
        /\ reports = 0
        /\ \E v \in Workers : wpc[v] = "done" /\ wres[v] = "json"

\* a chapter entry that is an object whose "groups" is an object holding at
\* least one non-blank string; title and volume play no part
EntryHasGroup(c) ==
    /\ c.kind = "dict"
    /\ "groups" \in c.has
    /\ c.gkind = "dict"
    /\ \E g \in DOMAIN c.groups : c.groups[g] = "url"

\* C11: under a well-formed root, chapter validation succeeds if and only if
\* the chapters map has at least one entry that is an object with a groups
\* object holding a non-blank string; no other field of the entry is required.
C11_ChaptersValidIffOneEntry ==
    (verdict # <<>> /\ verdict[1].root.ok) =>
      (verdict[1].strict.ok <=> \E k \in DOMAIN payload.ch : EntryHasGroup(payload.ch[k]))

\* C12: every record validate_candidate returns has a non-empty chapters map
\* in which every entry has at least one non-blank group mapping.
C12_RecordChaptersAllValid ==
    (impl = "finder" /\ verdict # <<>> /\ verdict[1].out.res # <<>>) =>
      LET chapters == verdict[1].out.res[1].chapters
      IN  /\ DOMAIN chapters # {}
          /\ \A k \in DOMAIN chapters : EntryHasGroup(chapters[k])


\* C20: when validate_candidate returns for a candidate with a digest, the
\* cache holds the candidate's row with is_valid true exactly if a record was
\* returned; for a candidate without a digest the cache is left unchanged.
C20_ValidationWritesCache ==
    (impl = "finder" /\ verdict # <<>> /\ ~verdict[1].out.exc) =>
      IF verdict[1].sha # NoSha
        THEN \E r \in verdict[1].out.cache :
               /\ r.url = SchemaUrl
               /\ r.sha = verdict[1].sha
               /\ r.is_valid = (verdict[1].out.res # <<>>)
        ELSE verdict[1].out.cache = verdict[1].before

\* ------------------------------------------- the engine's run
JsonPath(stem) == <<stem, ".json">>

\* items the search API can return: a file of repository o/r1, a file of
\* o/r2, and the first file again after its content changed
SearchItems ==
    {[html_url |-> <<"github.com", "o", "r1", "blob", "main", JsonPath("a")>>, sha |-> "d1"],
     [html_url |-> <<"github.com", "o", "r2", "blob", "main", JsonPath("b")>>, sha |-> "d2"],
     [html_url |-> <<"github.com", "o", "r1", "blob", "main", JsonPath("a")>>, sha |-> "d3"]}

Seqs(S, n) == UNION {[1..k -> S] : k \in 0..n}

\* entries of a repository's git tree
TreeEntry(path, type, sha) == [path |-> path, type |-> type, sha |-> sha]

TreeChoices ==
    {<<>>,
     <<TreeEntry(JsonPath("c"), "blob", "d1"), TreeEntry(<<"README", ".md">>, "blob", "d5"),
       TreeEntry(JsonPath("dir"), "tree", "d6"), TreeEntry(JsonPath("e"), "blob", "")>>}

\* what fetching a content URL can yield
ValidPayload == Payload("dict", GoodRoot, "1" :> GoodChapter)
IntCoverPayload == Payload("dict", [GoodRoot EXCEPT !["cover"] = "int"], "1" :> GoodChapter)

RunPayloads == {NoPayload, ValidPayload, IntCoverPayload}

Task(kind, arg) ==
    [kind |-> kind, arg |-> arg, st |-> "queued", res |-> <<>>, exc |-> FALSE, got |-> FALSE,
     tree |-> <<>>]

TaskIds == 1..Len(tasks)

Running == {i \in TaskIds : tasks[i].st = "running"}

\* a pool that is left without waiting for its futures
AllCollectedNoWait(kind) == TRUE

\* every future of the given kind has completed and was taken by as_completed
AllCollected(kind) ==
    \A i \in TaskIds : tasks[i].kind = kind => tasks[i].st = "done" /\ tasks[i].got

\* finder.py deep_scan_repo, lines 285-296: the candidates found in a tree
deep_scan_repo(c, owner, repo, tree) ==
    LET hits == SelectSeq(tree, LAMBDA e : /\ e.path[2] = ".json"
                                           /\ e.type = "blob"
                                           /\ e.sha # ""
                                           /\ ~is_sha_cached(c, e.sha))
    IN  [k \in 1..Len(hits) |->
           <<<<RawHost, owner, repo, "HEAD", hits[k].path>>, "deep_scan", hits[k].sha>>]

StageOf(kind) ==
    IF kind = "v1" THEN "VALIDATE_SEARCH_RESULTS"
    ELSE IF kind = "scan" THEN "DEEP_SCAN"
    ELSE "VALIDATE_DEEP_RESULTS"

\* finder.py run, lines 334-353: the search stage returns and every candidate
\* is submitted to the first pool
run_search ==
    /\ impl = "finder"
    /\ stage = "SEARCH_DISCOVERY"
    /\ \E items \in Seqs({it \in SearchItems : ~is_sha_cached(cache, it.sha)}, MaxCands) :
        LET cs == [k \in 1..Len(items) |->
                     <<to_raw_url(items[k].html_url), "search_shard", items[k].sha>>]
        IN  /\ candidates' = cs
            /\ tasks' = [k \in 1..Len(cs) |-> Task("v1", cs[k])]
    /\ stage' = "VALIDATE_SEARCH_RESULTS"
    /\ UNCHANGED <<valid_results, repos_to_scan, deep_candidates, seen_urls>>
    /\ UNCHANGED <<svars, pvars, cvars, kvars, yvars>>

\* ThreadPoolExecutor: a free worker thread takes the oldest queued future
task_start ==
    /\ Cardinality(Running) < MaxWorkers
    /\ \E i \in TaskIds :
        /\ tasks[i].st = "queued"
        /\ \A j \in 1..(i - 1) : tasks[j].st # "queued"
        /\ tasks' = [tasks EXCEPT ![i].st = "running"]
    /\ UNCHANGED <<stage, candidates, valid_results, repos_to_scan, deep_candidates, seen_urls>>
    /\ UNCHANGED <<svars, pvars, cvars, kvars, yvars>>

\* finder.py validate_candidate in a worker thread (the database accepts the
\* write; a write that fails is covered by sv_validate)
validate_finish ==
    /\ impl = "finder"
    /\ \E i \in TaskIds, data \in RunPayloads :
        /\ tasks[i].kind \in {"v1", "v2"}
        /\ tasks[i].st = "running"
        /\ LET a == tasks[i].arg
               o == validate_candidate(cache, a[1], a[2], a[3], data, clock)
           IN  /\ cache' = o.cache
               /\ tasks' = [tasks EXCEPT ![i].st = "done", ![i].res = o.res,
                                         ![i].exc = o.exc]
    /\ UNCHANGED <<stage, candidates, valid_results, repos_to_scan, deep_candidates, seen_urls>>
    /\ UNCHANGED <<impl, tokens, current_index, pvars, cvars, kvars, yvars>>

\* finder.py deep_scan_repo in a worker thread
scan_finish ==
    /\ impl = "finder"
    /\ \E i \in TaskIds, r1 \in Statuses, r2 \in Statuses, tree \in TreeChoices :
        /\ tasks[i].kind = "scan"
        /\ tasks[i].st = "running"
        /\ LET g == github_api_get(tokens, current_index, r1, r2)
               found == IF g.ok
                          THEN deep_scan_repo(cache, tasks[i].arg[1], tasks[i].arg[2], tree)
                          ELSE <<>>
           IN  /\ current_index' = g.index
               /\ tasks' = [tasks EXCEPT ![i].st = "done", ![i].res = found,
                                         ![i].tree = IF g.ok THEN <<tree>> ELSE <<>>]
    /\ UNCHANGED <<stage, candidates, valid_results, repos_to_scan, deep_candidates, seen_urls>>
    /\ UNCHANGED <<impl, tokens, cache, pvars, cvars, kvars, yvars>>

\* a run that marks no repository
RepoMarkNone(url) == {}

\* the owner/name a valid record marks for the deep scan
RepoMark(url) ==
    IF extract_repo_info(url) # <<>>
      THEN {<<extract_repo_info(url)[1].owner, extract_repo_info(url)[1].repo>>}
      ELSE {}

\* finder.py run: one iteration of an as_completed loop (lines 355-363,
\* 378-383, 397-401); future.result() re-raises what the worker raised
run_collect ==
    /\ impl = "finder"
    /\ \E i \in TaskIds :
        /\ tasks[i].st = "done"
        /\ ~tasks[i].got
        /\ stage = StageOf(tasks[i].kind)
        /\ tasks' = [tasks EXCEPT ![i].got = TRUE]
        /\ IF tasks[i].kind = "scan"
             THEN /\ deep_candidates' = deep_candidates \o tasks[i].res
                  /\ UNCHANGED <<stage, valid_results, repos_to_scan>>
           ELSE IF tasks[i].exc
             THEN /\ stage' = "UNWINDING"
                  /\ UNCHANGED <<valid_results, repos_to_scan, deep_candidates>>
           ELSE IF tasks[i].res = <<>>
             THEN UNCHANGED <<stage, valid_results, repos_to_scan, deep_candidates>>
           ELSE /\ valid_results' = Append(valid_results, tasks[i].res[1])
                /\ repos_to_scan' = IF tasks[i].kind = "v1"
                                      THEN repos_to_scan \cup RepoMark(tasks[i].res[1].url)
                                      ELSE repos_to_scan
                /\ UNCHANGED <<stage, deep_candidates>>
    /\ UNCHANGED <<candidates, seen_urls>>
    /\ UNCHANGED <<svars, pvars, cvars, kvars, yvars>>

\* the exception leaves the "with" block: the executor is shut down waiting
\* for every future, then run() is left
run_unwind ==
    /\ stage = "UNWINDING"
    /\ \A i \in TaskIds : tasks[i].st = "done"
    /\ stage' = "ABORTED"
    /\ UNCHANGED <<candidates, tasks, valid_results, repos_to_scan, deep_candidates, seen_urls>>
    /\ UNCHANGED <<svars, pvars, cvars, kvars, yvars>>

Perms(S) == {q \in [1..Cardinality(S) -> S] : \A a, b \in DOMAIN q : q[a] = q[b] => a = b}

\* finder.py run, lines 365-376: the first pool is closed, one deep scan per
\* marked repository is submitted to the second
run_deep_scan ==
    /\ impl = "finder"
    /\ stage = "VALIDATE_SEARCH_RESULTS"
    /\ AllCollected("v1")
    /\ \E order \in Perms(repos_to_scan) :
        tasks' = tasks \o [k \in 1..Len(order) |-> Task("scan", order[k])]
    /\ stage' = "DEEP_SCAN"
    /\ UNCHANGED <<candidates, valid_results, repos_to_scan, deep_candidates, seen_urls>>
    /\ UNCHANGED <<svars, pvars, cvars, kvars, yvars>>

\* finder.py run, lines 385-395: the deep candidates are submitted to the
\* third pool
run_validate_deep ==
    /\ impl = "finder"
    /\ stage = "DEEP_SCAN"
    /\ AllCollected("scan")
    /\ tasks' = tasks \o [k \in 1..Len(deep_candidates) |-> Task("v2", deep_candidates[k])]
    /\ stage' = "VALIDATE_DEEP_RESULTS"
    /\ UNCHANGED <<candidates, valid_results, repos_to_scan, deep_candidates, seen_urls>>
    /\ UNCHANGED <<svars, pvars, cvars, kvars, yvars>>

\* finder.py run, lines 403-415: the results are saved and run() returns
run_save ==
    /\ impl = "finder"
    /\ stage = "VALIDATE_DEEP_RESULTS"
    /\ AllCollected("v2")
    /\ stage' = "DONE"
    /\ UNCHANGED <<candidates, tasks, valid_results, repos_to_scan, deep_candidates, seen_urls>>
    /\ UNCHANGED <<svars, pvars, cvars, kvars, yvars>>

RECURSIVE cf_Submit(_, _)
\* cubari_finder.py run, lines 298-303: the candidates submitted, and seen_urls
cf_Submit(cs, seen) ==
    IF cs = <<>> THEN [sub |-> <<>>, seen |-> seen]
    ELSE IF Head(cs)[1] \in seen THEN cf_Submit(Tail(cs), seen)
    ELSE LET rest == cf_Submit(Tail(cs), seen \cup {Head(cs)[1]})
         IN  [sub |-> <<Task("cv", Head(cs))>> \o rest.sub, seen |-> rest.seen]

RECURSIVE cf_DedupSha(_, _)
\* cubari_finder.py search_size_range, lines 228-233: items kept by seen_shas
cf_DedupSha(items, seen) ==
    IF items = <<>> THEN <<>>
    ELSE IF Head(items).sha \in seen THEN cf_DedupSha(Tail(items), seen)
    ELSE <<Head(items)>> \o cf_DedupSha(Tail(items), seen \cup {Head(items).sha})

\* cubari_finder.py run, lines 287-303: the search phase returns and the
\* candidates with a URL not seen before are submitted
cf_run_search ==
    /\ impl = "cubari"
    /\ stage = "SEARCH_DISCOVERY"
    /\ \E items \in Seqs(SearchItems, MaxCands) :
        LET kept == cf_DedupSha(items, {})
            cs == [k \in 1..Len(kept) |->
                     <<to_raw_url(kept[k].html_url), "adaptive_size_shard">>]
        IN  /\ candidates' = cs
            /\ tasks' = cf_Submit(cs, {}).sub
            /\ seen_urls' = cf_Submit(cs, {}).seen
    /\ stage' = "VALIDATE_SEARCH_RESULTS"
    /\ UNCHANGED <<valid_results, repos_to_scan, deep_candidates>>
    /\ UNCHANGED <<svars, pvars, cvars, kvars, yvars>>

\* cubari_finder.py validate_candidate in a worker thread
cf_validate_finish ==
    /\ impl = "cubari"
    /\ \E i \in TaskIds, data \in RunPayloads :
        /\ tasks[i].kind = "cv"
        /\ tasks[i].st = "running"
        /\ LET o == cf_validate_candidate(tasks[i].arg[1], tasks[i].arg[2], data)
           IN  tasks' = [tasks EXCEPT ![i].st = "done", ![i].res = o.res, ![i].exc = o.exc]
    /\ UNCHANGED <<stage, candidates, valid_results, repos_to_scan, deep_candidates, seen_urls>>
    /\ UNCHANGED <<svars, pvars, cvars, kvars, yvars>>

\* cubari_finder.py run, lines 305-309: one iteration of the as_completed loop
cf_run_collect ==
    /\ impl = "cubari"
    /\ stage = "VALIDATE_SEARCH_RESULTS"
    /\ \E i \in TaskIds :
        /\ tasks[i].st = "done"
        /\ ~tasks[i].got
        /\ tasks' = [tasks EXCEPT ![i].got = TRUE]
        /\ IF tasks[i].exc
             THEN /\ stage' = "UNWINDING"
                  /\ UNCHANGED valid_results
           ELSE /\ valid_results' = IF tasks[i].res = <<>> THEN valid_results
                                    ELSE Append(valid_results, tasks[i].res[1])
                /\ UNCHANGED stage
    /\ UNCHANGED <<candidates, repos_to_scan, deep_candidates, seen_urls>>
    /\ UNCHANGED <<svars, pvars, cvars, kvars, yvars>>

\* cubari_finder.py run, lines 311-322: the results are saved and run() returns
cf_run_save ==
    /\ impl = "cubari"
    /\ stage = "VALIDATE_SEARCH_RESULTS"
    /\ AllCollected("cv")
    /\ stage' = "DONE"
    /\ UNCHANGED <<candidates, tasks, valid_results, repos_to_scan, deep_candidates, seen_urls>>
    /\ UNCHANGED <<svars, pvars, cvars, kvars, yvars>>

\* the cache a run starts with: empty, or a row an earlier run left
PriorRunCaches ==
    {{}, {Row(<<RawHost, "o", "r1", "main", JsonPath("a")>>, "d1", FALSE, "search_shard", 0)}}

InitRun ==
    /\ RunIdle
    /\ SchemaIdle
    /\ PartitionIdle
    /\ ClientIdle
    /\ CacheIdle
    /\ impl \in {"finder", "cubari"}
    /\ tokens = [k \in 1..MaxTokens |-> k]
    /\ current_index = 0
    /\ cache \in (IF impl = "finder" THEN PriorRunCaches ELSE {{}})
    /\ prior = cache

NextRun ==
    \/ run_search
    \/ task_start
    \/ validate_finish
    \/ scan_finish
    \/ run_collect
    \/ run_unwind
    \/ run_deep_scan
    \/ run_validate_deep
    \/ run_save
    \/ cf_run_search
    \/ cf_validate_finish
    \/ cf_run_collect
    \/ cf_run_save

SpecRun == InitRun /\ [][NextRun]_vars

\* ------------------------------------------- properties of the run
Validations == {i \in TaskIds : tasks[i].kind \in {"v1", "v2", "cv"}}

\* C6: no failure of a single candidate propagates out of a validation stage:
\* the run is never left by an exception a validation raised.
C6_RunNeverAborts == stage # "ABORTED"

\* C7: at no time are two validations of the same content URL in flight.
C7_OneValidationPerUrl ==
    \A i, j \in Validations \cap Running : tasks[i].arg[1] = tasks[j].arg[1] => i = j

StageRank(st) ==
    CASE st = "SEARCH_DISCOVERY" -> 1
      [] st = "VALIDATE_SEARCH_RESULTS" -> 2
      [] st = "DEEP_SCAN" -> 3
      [] st = "VALIDATE_DEEP_RESULTS" -> 4
      [] st = "DONE" -> 5
      [] OTHER -> 6

Started(kind) == {i \in TaskIds : tasks[i].kind = kind /\ tasks[i].st # "queued"}

Finished(kind) == \A i \in TaskIds : tasks[i].kind = kind => tasks[i].st = "done"

C9_Barriers ==
    /\ stage = "SEARCH_DISCOVERY" => tasks = <<>>
    /\ Started("scan") # {} => Finished("v1")
    /\ Started("v2") # {} => Finished("scan")
    /\ \A i \in TaskIds : tasks[i].kind = "scan" => StageRank(stage) >= 3
    /\ \A i \in TaskIds : tasks[i].kind = "v2" => StageRank(stage) >= 4

\* C9: the stages of finder.py's run follow one another in the order
\* SEARCH_DISCOVERY, VALIDATE_SEARCH_RESULTS, DEEP_SCAN, VALIDATE_DEEP_RESULTS,
\* DONE, never backwards and none skipped; no validation exists before the
\* search returned, no scan starts before every stage-2 validation completed,
\* and no stage-4 validation starts before every scan completed.
C9_StagesInOrder ==
    /\ [](impl = "finder" => C9_Barriers)
    /\ [][impl = "finder" /\ StageRank(stage) <= 5 =>
            \/ stage' = stage
            \/ StageRank(stage') = StageRank(stage) + 1
            \/ stage' = "UNWINDING"]_vars
    /\ [][StageRank(stage') >= StageRank(stage)]_vars

C9_Witness ==
    /\ impl = "finder"
    /\ stage = "DONE"
    /\ \A k \in {"v1", "scan", "v2"} : \E i \in TaskIds : tasks[i].kind = k /\ tasks[i].got
    /\ Cardinality(Started("v1")) > 1

\* the digests classified before the run started
PriorShas == {r.sha : r \in prior}

\* C13: a digest that had a cache row when the run started is never emitted
\* as a candidate, by the partitioner or by the repository scanner, and so is
\* never validated during the run.
C13_PriorDigestNotReexamined ==
    impl = "finder" =>
      /\ \A k \in 1..Len(candidates) : candidates[k][3] \notin PriorShas
      /\ \A k \in 1..Len(deep_candidates) : deep_candidates[k][3] \notin PriorShas
      /\ \A k \in 1..Len(collected) : collected[k][3] \notin PriorShas
      /\ \A i \in Validations : tasks[i].arg[3] \notin PriorShas

\* the digest has a row with a negative verdict
NegativelyCached(c, sha) == \E r \in c : r.sha = sha /\ ~r.is_valid

\* the candidates C14 expects of a tree: the .json blobs with a digest, but
\* for those cached with a negative verdict
ExpectedOfTree(c, owner, repo, tree) ==
    LET hits == SelectSeq(tree, LAMBDA e : /\ e.path[2] = ".json"
                                           /\ e.type = "blob"
                                           /\ e.sha # ""
                                           /\ ~NegativelyCached(c, e.sha))
    IN  [k \in 1..Len(hits) |->
           <<<<RawHost, owner, repo, "HEAD", hits[k].path>>, "deep_scan", hits[k].sha>>]

\* C14: deep_scan_repo emits a candidate for every .json blob of the tree
\* except exactly those whose digest is cached with a negative verdict; a
\* digest cached with a positive verdict is not skipped.
C14_ScanSkipsOnlyNegative ==
    stage = "DEEP_SCAN" =>
      \A i \in TaskIds :
        (tasks[i].kind = "scan" /\ tasks[i].st = "done" /\ tasks[i].tree # <<>>) =>
          tasks[i].res = ExpectedOfTree(cache, tasks[i].arg[1], tasks[i].arg[2],
                                        tasks[i].tree[1])

\* the stage-2 futures that returned a record, and the repository of each
ValidSearchTasks == {i \in TaskIds : tasks[i].kind = "v1" /\ tasks[i].res # <<>>}

RepoOfRecord(i) == <<tasks[i].res[1].url[2], tasks[i].res[1].url[3]>>

ScanTasks == {i \in TaskIds : tasks[i].kind = "scan"}

\* C21: the repository scanner is invoked once for each distinct owner/name
\* that is the source of a record validated in stage 2, and for no other
\* repository.
C21_OneScanPerValidRepo ==
    impl = "finder" =>
      /\ \A i, j \in ScanTasks : tasks[i].arg = tasks[j].arg => i = j
      /\ \A i \in ScanTasks : \E j \in ValidSearchTasks : RepoOfRecord(j) = tasks[i].arg
      /\ StageRank(stage) \in 3..5 =>
           \A j \in ValidSearchTasks : \E i \in ScanTasks : tasks[i].arg = RepoOfRecord(j)

\* two records of one repository and one scan, finished
C21_Witness ==
    /\ impl = "finder"
    /\ stage = "DONE"
    /\ Cardinality(ValidSearchTasks) = 2
    /\ \A i, j \in ValidSearchTasks : RepoOfRecord(i) = RepoOfRecord(j)
    /\ Cardinality(ScanTasks) = 1
    /\ \A i \in ScanTasks : tasks[i].st = "done"

\* the calls that have gone on to a retry after a rate-limit response
Retrying ==
    {w \in Workers : wreq[w] >= 2 \/ wpc[w] \in {"retok", "req2"}
                     \/ (wpc[w] = "loop" /\ wreq[w] >= 1)}

\* C24: after a rate-limit response the client sleeps max(T - now, MIN_SLEEP)
\* seconds when the response carries remaining = 0 and a reset time T, and
\* BACKOFF seconds otherwise; whatever the headers are, a call that retries
\* has therefore slept at least MIN_SLEEP seconds.
C24_SleepsBeforeRetry ==
    \A w \in Retrying : wslept[w] >= MIN_SLEEP

\* ------------------------------------------- the TokenManager, used by one caller
MaxCalls == 8

\* the calls made so far
Calls == Len(wtok[1]) + reports

\* TokenManager.get_token, lines 109-110: one call; wtok[1] lists what the
\* calls returned
tm_get_token ==
    /\ Calls < MaxCalls
    /\ wtok' = [wtok EXCEPT ![1] = Append(@, get_token(tokens, current_index))]
    /\ UNCHANGED <<impl, tokens, current_index, cache>>
    /\ UNCHANGED <<wpc, wread, wreq, wres, wslept, reports, limited>>
    /\ UNCHANGED <<pvars, kvars, yvars, rvars>>

\* TokenManager.report_rate_limit, lines 112-123: one call, run to its return;
\* wslept[1] is how long the call slept
tm_report_rate_limit ==
    /\ Calls < MaxCalls
    /\ current_index' = report_rate_limit(tokens, current_index).index
    /\ wslept' = [wslept EXCEPT ![1] = report_rate_limit(tokens, current_index).slept]
    /\ reports' = reports + 1
    /\ UNCHANGED <<impl, tokens, cache>>
    /\ UNCHANGED <<wpc, wtok, wread, wreq, wres, limited>>
    /\ UNCHANGED <<pvars, kvars, yvars, rvars>>

\* TokenManager.__init__, lines 99-107: the pool is not empty and the index is 0
InitRotator ==
    /\ RunIdle
    /\ SchemaIdle
    /\ PartitionIdle
    /\ ClientIdle
    /\ CacheIdle
    /\ impl = "finder"
    /\ tokens \in TokenPools
    /\ current_index = 0
    /\ cache = {}
    /\ prior = cache

NextRotator ==
    \/ tm_get_token
    \/ tm_report_rate_limit

SpecRotator == InitRotator /\ [][NextRotator]_vars

\* the index is a position of the pool, it is the number of reports modulo the
\* pool size, and after a multiple of n reports the first credential is active
RotatorState ==
    /\ current_index \in 0..(Len(tokens) - 1)
    /\ current_index = reports % Len(tokens)
    /\ reports % Len(tokens) = 0 => get_token(tokens, current_index) = tokens[1]

\* what one call does: get_token returns the credential at the index and
\* leaves the index alone, a report advances the index by one modulo n, and
\* neither changes the pool
RotatorStep ==
    /\ tokens' = tokens
    /\ Len(wtok'[1]) = Len(wtok[1]) + 1 =>
         /\ wtok'[1][Len(wtok'[1])] = tokens[current_index + 1]
         /\ current_index' = current_index
    /\ reports' = reports + 1 =>
         current_index' = (current_index + 1) % Len(tokens)

\* C25: in sequential use of a pool of n credentials, get_token returns the
\* credential at the current index, each report_rate_limit advances the index
\* by exactly one position modulo n, n consecutive reports bring back the
\* credential active at the start, and the pool never changes.
C25_RoundRobin == []RotatorState /\ [][RotatorStep]_vars

\* a pool of two, read before, between and after two reports
C25_Witness ==
    /\ Len(tokens) = 2
    /\ reports = 2
    /\ wtok[1] = <<1, 2, 1>>
    /\ wpc[1] = "idle"

\* the calls for which report_rate_limit has returned
Reported == {w \in Workers : wpc[w] \in {"retok", "req2"} \/ wreq[w] >= 2}

\* C26: with exactly one credential report_rate_limit returns only after the
\* COOLDOWN sleep, so the retry follows the rate-limited response by no less
\* than COOLDOWN seconds; with two or more credentials it returns without
\* sleeping.
C26_CooldownBeforeRetry ==
    impl = "finder" =>
      /\ \A w \in Reported :
           wslept[w] = IF Len(tokens) = 1 THEN COOLDOWN ELSE 0
      /\ Len(tokens) >= 2 => Sleeping = {} /\ \A w \in Workers : wslept[w] = 0

\* a call on a pool of one that was rate limited, slept and retried
C26_Witness ==
    /\ impl = "finder"
    /\ Len(tokens) = 1
    /\ \E w \in Workers : wpc[w] = "done" /\ wreq[w] = 2 /\ wslept[w] = COOLDOWN

\* the digests handed to validate_candidate by the futures of one kind
DigestsOf(kind) == {tasks[i].arg[3] : i \in {j \in TaskIds : tasks[j].kind = kind}}

\* C27: within one run no digest is validated both in stage 2 and in stage 4:
\* the digests of the stage-4 candidates are none of the digests of the
\* stage-2 candidates.
C27_NoDigestValidatedTwice ==
    impl = "finder" => DigestsOf("v1") \cap DigestsOf("v2") = {}

====
